---- MODULE Spec2Model ----
(***************************************************************************)
(* One POST /clip-and-merge request of src/main.py: the endpoint           *)
(* clip_and_merge, the pipeline clip_and_merge_videos with its finally     *)
(* block, and download_video.  The network, the external media tool and    *)
(* the file system are the environment: every call into them takes one of  *)
(* the outcomes the call can have.                                         *)
(***************************************************************************)
EXTENDS Integers, Sequences, FiniteSets, TLC

\* ------------------------------------------------------------------ bounds
MaxUrls == 2
MaxParts == 2
\* /extract-frame: the largest request time, frame rate and frame count tried.
MaxTime == 2
MaxFps == 2
MaxFrames == 2
\* Concurrent requests: how many run at once, and how many names tempfile can
\* choose from for one kind of path.
NumRequests == 2
MaxNames == 2

\* Section identifiers the caller may use (ClipRequest does not constrain them).
SectionIds == {1, 2}
\* video_id values the caller may send: negative, in range, and past the end.
VideoIds == (0 - 1)..MaxUrls
\* (start_time, end_time) pairs: a valid range, a negative start, an empty range.
TimeRanges == { <<0, 1>>, <<0 - 1, 1>>, <<1, 1>> }

VideoSection ==
  [section : SectionIds, video_id : VideoIds, start_time : {0 - 1, 0, 1}, end_time : {1}]

\* ------------------------------------------------------------- file system
\* A path is <<kind, n>>.  tempfile.NamedTemporaryFile and tempfile.mkdtemp
\* return names that are not in use.
TmpFile(n) == <<"tmp", n>>
temp_dir == <<"mkdtemp", 0>>
clip_path_ByVideo(section) == <<"clip", section.video_id>>
clip_path(section) == <<"clip", section.section>>
concat_file == <<"concat_list.txt", 0>>
output_path == <<"merged_video.mp4", 0>>

\* os.path.join(temp_dir, ...): the paths that live inside the scratch directory.
InTempDir(p) == p[1] \in {"clip", "concat_list.txt", "merged_video.mp4"}

NoData == [kind |-> "none", url |-> 0, pos |-> 0, lines |-> <<>>]

VARIABLES
  video_urls,         \* request.video_urls (a URL is named by a number)
  video_parts,        \* request.video_parts
  pc,                 \* the line the request is at
  idx,                \* position of the running for loop
  fs,                 \* the disk: path -> content, for the paths that exist
  nextTmp,            \* names already handed out by NamedTemporaryFile
  downloaded_videos,  \* list of downloaded paths
  clip_files,         \* list of clip paths
  result,             \* result of the last subprocess.run
  video_bytes,        \* value returned by clip_and_merge_videos
  exc,                \* the exception in flight
  bodyExc,            \* the exception that left the try body (line 255)
  response,           \* what the caller receives
  created,            \* every path ever created by the request
  attempts,           \* URL positions download_video was called for
  calls,              \* the subprocess.run invocations made
  time_seconds,       \* /extract-frame: request.time
  video,              \* /extract-frame: what the decoder finds in the downloaded file
  cap,                \* /extract-frame: the cv2.VideoCapture handle of extract_frame
  frame_path,         \* /extract-frame: the handler's video_path
  rq,                 \* concurrent requests: the locals of each clip_and_merge_videos call
  disk,               \* concurrent requests: the shared temp namespace, path -> creator
  alias               \* concurrent requests: a request touched a path of another one

\* The variables of one /extract-frame request and of the concurrent requests.
frameVars == <<time_seconds, video, cap, frame_path>>
concVars == <<rq, disk, alias>>

vars == <<video_urls, video_parts, pc, idx, fs, nextTmp, downloaded_videos, clip_files,
          result, video_bytes, exc, bodyExc, response, created, attempts, calls,
          frameVars, concVars>>

NoExc == [type |-> "none", status |-> 0, kind |-> "none"]
HTTPException(status, kind) == [type |-> "HTTPException", status |-> status, kind |-> kind]
TimeoutExpired == [type |-> "TimeoutExpired", status |-> 0, kind |-> "timeout"]
OSError == [type |-> "OSError", status |-> 0, kind |-> "oserror"]

NoResult == [returncode |-> 0, timedOut |-> FALSE]
NoPath == <<"None", 0>>
NoVideo == [opened |-> FALSE, fps |-> 0, total_frames |-> 0, readable |-> FALSE]

\* The values the variables of the other endpoints keep while one /clip-and-merge
\* request is followed.
FrameIdle == time_seconds = 0 /\ video = NoVideo /\ cap = "none" /\ frame_path = NoPath
ConcIdle == rq = << >> /\ disk = << >> /\ alias = FALSE
NoResponse == [status |-> 0, kind |-> "none", body |-> NoData]

exists_Always(p) == TRUE
exists(p) == p \in DOMAIN fs
unlink(p) == [q \in (DOMAIN fs) \ {p} |-> fs[q]]
write(p, data) == [q \in (DOMAIN fs) \cup {p} |-> IF q = p THEN data ELSE fs[q]]
rmtree == [q \in {r \in DOMAIN fs : r # temp_dir /\ ~InTempDir(r)} |-> fs[q]]

SeqsUpTo(S, n) == UNION { [1..m -> S] : m \in 0..n }

Init ==
  /\ video_urls \in { [i \in 1..n |-> i] : n \in 0..MaxUrls }
  /\ video_parts \in SeqsUpTo({s \in VideoSection : <<s.start_time, s.end_time>> \in TimeRanges},
                              MaxParts)
  /\ pc = "endpoint"
  /\ idx = 1
  /\ fs = << >>
  /\ nextTmp = 0
  /\ downloaded_videos = << >>
  /\ clip_files = << >>
  /\ result = NoResult
  /\ video_bytes = NoData
  /\ exc = NoExc
  /\ bodyExc = NoExc
  /\ response = NoResponse
  /\ created = {}
  /\ attempts = << >>
  /\ calls = << >>
  /\ FrameIdle
  /\ ConcIdle

\* ---------------------------------------------------------------- endpoint
\* clip_and_merge, lines 285-289: the two emptiness checks, in order.
InputError_UrlsOnly(urls, parts) ==
  IF urls = << >> THEN "video_urls cannot be empty" ELSE "none"

InputError(urls, parts) ==
  IF urls = << >> THEN "video_urls cannot be empty"
  ELSE IF parts = << >> THEN "video_parts cannot be empty"
  ELSE "none"

ValidateInput ==
  /\ pc = "endpoint"
  /\ IF InputError(video_urls, video_parts) # "none"
       THEN /\ exc' = HTTPException(400, InputError(video_urls, video_parts))
            /\ pc' = "respond"
       ELSE /\ exc' = exc
            /\ pc' = "mkdtemp"
  /\ UNCHANGED <<video_urls, video_parts, idx, fs, nextTmp, downloaded_videos, clip_files,
                 result, video_bytes, bodyExc, response, created, attempts, calls>>
  /\ UNCHANGED <<frameVars, concVars>>

\* ------------------------------------------------------------- the pipeline
\* Leaving the try body of clip_and_merge_videos with exception e (or with a
\* return when e = NoExc): the finally block at line 255 starts.
FinallyFrom(phase, i) ==
  IF phase = "finally_videos" /\ i <= Len(downloaded_videos) THEN <<"finally_videos", i>>
  ELSE IF phase = "finally_videos" /\ Len(clip_files) >= 1 THEN <<"finally_clips", 1>>
  ELSE IF phase = "finally_clips" /\ i <= Len(clip_files) THEN <<"finally_clips", i>>
  ELSE <<"finally_dir", 1>>

Leave_Retry(e) ==
  /\ exc' = e
  /\ bodyExc' = e
  /\ UNCHANGED <<pc, idx>>

Leave(e) ==
  /\ exc' = e
  /\ bodyExc' = e
  /\ pc' = FinallyFrom("finally_videos", 1)[1]
  /\ idx' = 1

\* Line 132: temp_dir = tempfile.mkdtemp(); then the download loop starts.
Mkdtemp ==
  /\ pc = "mkdtemp"
  /\ fs' = write(temp_dir, [NoData EXCEPT !.kind = "dir"])
  /\ created' = created \cup {temp_dir}
  /\ pc' = IF Len(video_urls) >= 1 THEN "download" ELSE "validate"
  /\ idx' = 1
  /\ UNCHANGED <<video_urls, video_parts, nextTmp, downloaded_videos, clip_files, result,
                 video_bytes, exc, bodyExc, response, attempts, calls>>
  /\ UNCHANGED <<frameVars, concVars>>

\* download_video, lines 34-48.  requests.get / raise_for_status may raise
\* before the temp file exists ("get_failed"); iter_content / write may raise
\* after NamedTemporaryFile(delete=False) created it ("stream_failed"); every
\* exception becomes HTTPException(400).
DownloadOutcomes == {"ok", "get_failed", "stream_failed"}

download_video(url, how) ==
  [ path |-> TmpFile(nextTmp + 1),
    made |-> how # "get_failed",
    data |-> [NoData EXCEPT !.kind = IF how = "ok" THEN "video" ELSE "partial", !.url = url],
    exc  |-> IF how = "ok" THEN NoExc ELSE HTTPException(400, "Failed to download video") ]

\* Lines 136-138: one iteration of the download loop.
Download ==
  /\ pc = "download"
  /\ idx <= Len(video_urls)
  /\ \E how \in DownloadOutcomes :
       LET d == download_video(video_urls[idx], how) IN
         /\ attempts' = Append(attempts, idx)
         /\ fs' = IF d.made THEN write(d.path, d.data) ELSE fs
         /\ created' = IF d.made THEN created \cup {d.path} ELSE created
         /\ nextTmp' = IF d.made THEN nextTmp + 1 ELSE nextTmp
         /\ IF d.exc.type = "none"
              THEN /\ downloaded_videos' = Append(downloaded_videos, d.path)
                   /\ pc' = IF idx < Len(video_urls) THEN "download" ELSE "validate"
                   /\ idx' = IF idx < Len(video_urls) THEN idx + 1 ELSE 1
                   /\ UNCHANGED <<exc, bodyExc>>
              ELSE /\ Leave(d.exc)
                   /\ UNCHANGED downloaded_videos
  /\ UNCHANGED <<video_urls, video_parts, clip_files, result, video_bytes, response, calls>>
  /\ UNCHANGED <<frameVars, concVars>>

\* Lines 142-151: the two checks made on one section.
SectionError(section, n) ==
  IF section.video_id < 0 \/ section.video_id >= n THEN "Invalid video_id"
  ELSE IF section.start_time < 0 \/ section.end_time <= section.start_time
    THEN "Invalid time range"
  ELSE "none"

\* The first list position whose section fails a check, 0 when none does.
FirstInvalid(parts, n) ==
  LET bad == {j \in 1..Len(parts) : SectionError(parts[j], n) # "none"}
  IN IF bad = {} THEN 0 ELSE CHOOSE j \in bad : \A k \in bad : j <= k

ValidateSections_SkipClips ==
  /\ pc = "validate"
  /\ LET j == FirstInvalid(video_parts, Len(video_urls)) IN
       IF j # 0
         THEN Leave(HTTPException(400, SectionError(video_parts[j], Len(video_urls))))
         ELSE /\ pc' = "concat"
              /\ idx' = 1
              /\ UNCHANGED <<exc, bodyExc>>
  /\ UNCHANGED <<video_urls, video_parts, fs, nextTmp, downloaded_videos, clip_files, result,
                 video_bytes, response, created, attempts, calls>>
  /\ UNCHANGED <<frameVars, concVars>>

\* Lines 141-151: the validation loop (no side effect, so one step).
ValidateSections ==
  /\ pc = "validate"
  /\ LET j == FirstInvalid(video_parts, Len(video_urls)) IN
       IF j # 0
         THEN Leave(HTTPException(400, SectionError(video_parts[j], Len(video_urls))))
         ELSE /\ pc' = IF Len(video_parts) >= 1 THEN "clip" ELSE "concat"
              /\ idx' = 1
              /\ UNCHANGED <<exc, bodyExc>>
  /\ UNCHANGED <<video_urls, video_parts, fs, nextTmp, downloaded_videos, clip_files, result,
                 video_bytes, response, created, attempts, calls>>
  /\ UNCHANGED <<frameVars, concVars>>

\* subprocess.run(..., timeout=...): the tool exits with a code or the timeout
\* expires; whether it wrote its output file is the tool's business.
ToolOutcomes ==
  [timedOut : {FALSE}, returncode : {0, 1}, wrote : BOOLEAN]
    \cup [timedOut : {TRUE}, returncode : {0}, wrote : BOOLEAN]

Call(tool, pos, src, out, o, after) ==
  [tool |-> tool, pos |-> pos, src |-> src, out |-> out, timedOut |-> o.timedOut,
   returncode |-> o.returncode, wrote |-> o.wrote, existsAfter |-> after]

\* Line 155: the downloaded file a section is cut from.
SourceOf_First(section) == downloaded_videos[1]
SourceOf(section) == downloaded_videos[section.video_id + 1]

\* Lines 154-191: one iteration of the clip loop.
Clip ==
  /\ pc = "clip"
  /\ idx <= Len(video_parts)
  /\ \E o \in ToolOutcomes :
       LET section == video_parts[idx]
           video_path == SourceOf(section)
           out == clip_path(section)
           data == [NoData EXCEPT !.kind = "clip", !.url = fs[video_path].url, !.pos = idx]
           after == o.wrote \/ exists(out)
       IN
         /\ fs' = IF o.wrote THEN write(out, data) ELSE fs
         /\ created' = IF o.wrote THEN created \cup {out} ELSE created
         /\ calls' = Append(calls, Call("clip", idx, video_path, out, o, after))
         /\ IF o.timedOut
              THEN /\ Leave(TimeoutExpired)
                   /\ UNCHANGED <<result, clip_files>>
            ELSE IF o.returncode # 0
              THEN /\ Leave(HTTPException(500, "Failed to clip section"))
                   /\ result' = [returncode |-> o.returncode, timedOut |-> FALSE]
                   /\ UNCHANGED clip_files
            ELSE IF ~after
              THEN /\ Leave(HTTPException(500, "Clip file not created"))
                   /\ result' = [returncode |-> o.returncode, timedOut |-> FALSE]
                   /\ UNCHANGED clip_files
            ELSE /\ clip_files' = Append(clip_files, out)
                 /\ result' = [returncode |-> o.returncode, timedOut |-> FALSE]
                 /\ pc' = IF idx < Len(video_parts) THEN "clip" ELSE "concat"
                 /\ idx' = IF idx < Len(video_parts) THEN idx + 1 ELSE 1
                 /\ UNCHANGED <<exc, bodyExc>>
  /\ UNCHANGED <<video_urls, video_parts, nextTmp, downloaded_videos, video_bytes, response,
                 attempts>>
  /\ UNCHANGED <<frameVars, concVars>>

\* Lines 196-197: one "file '<path>'" line per entry of clip_files, in list order.
ConcatLines_Reversed(files) ==
  [i \in 1..Len(files) |-> <<"file", files[Len(files) + 1 - i]>>]

ConcatLines(files) == [i \in 1..Len(files) |-> <<"file", files[i]>>]

\* Lines 194-197: the concat manifest is written.
WriteConcat ==
  /\ pc = "concat"
  /\ fs' = write(concat_file, [NoData EXCEPT !.kind = "concat", !.lines = ConcatLines(clip_files)])
  /\ created' = created \cup {concat_file}
  /\ pc' = "merge"
  /\ UNCHANGED <<video_urls, video_parts, idx, nextTmp, downloaded_videos, clip_files, result,
                 video_bytes, exc, bodyExc, response, attempts, calls>>
  /\ UNCHANGED <<frameVars, concVars>>

\* What the concat demuxer produces from the manifest: the listed clips, in order.
Merged ==
  [NoData EXCEPT !.kind = "merged",
                 !.lines = [i \in 1..Len(fs[concat_file].lines) |->
                              LET p == fs[concat_file].lines[i][2]
                              IN <<fs[p].url, fs[p].pos>>]]

\* Line 219: the stream-copy result decides whether the re-encode runs.
FallbackNeeded_Never(returncode) == FALSE
FallbackNeeded(returncode) == returncode # 0

\* Lines 199-219: the stream-copy concat invocation.
MergeCopy ==
  /\ pc = "merge"
  /\ \E o \in ToolOutcomes :
       LET after == o.wrote \/ exists(output_path) IN
         /\ fs' = IF o.wrote THEN write(output_path, Merged) ELSE fs
         /\ created' = IF o.wrote THEN created \cup {output_path} ELSE created
         /\ calls' = Append(calls, Call("copy", 0, concat_file, output_path, o, after))
         /\ IF o.timedOut
              THEN /\ Leave(TimeoutExpired)
                   /\ UNCHANGED result
              ELSE /\ result' = [returncode |-> o.returncode, timedOut |-> FALSE]
                   /\ pc' = IF FallbackNeeded(o.returncode) THEN "reencode" ELSE "read"
                   /\ UNCHANGED <<idx, exc, bodyExc>>
  /\ UNCHANGED <<video_urls, video_parts, nextTmp, downloaded_videos, clip_files, video_bytes,
                 response, attempts>>
  /\ UNCHANGED <<frameVars, concVars>>

\* Lines 220-244: the re-encode concat invocation.
MergeReencode ==
  /\ pc = "reencode"
  /\ \E o \in ToolOutcomes :
       LET after == o.wrote \/ exists(output_path) IN
         /\ fs' = IF o.wrote THEN write(output_path, Merged) ELSE fs
         /\ created' = IF o.wrote THEN created \cup {output_path} ELSE created
         /\ calls' = Append(calls, Call("reencode", 0, concat_file, output_path, o, after))
         /\ IF o.timedOut
              THEN /\ Leave(TimeoutExpired)
                   /\ UNCHANGED result
            ELSE IF o.returncode # 0
              THEN /\ Leave(HTTPException(500, "Failed to merge videos"))
                   /\ result' = [returncode |-> o.returncode, timedOut |-> FALSE]
            ELSE /\ result' = [returncode |-> o.returncode, timedOut |-> FALSE]
                 /\ pc' = "read"
                 /\ UNCHANGED <<idx, exc, bodyExc>>
  /\ UNCHANGED <<video_urls, video_parts, nextTmp, downloaded_videos, clip_files, video_bytes,
                 response, attempts>>
  /\ UNCHANGED <<frameVars, concVars>>

\* Lines 246-253: the merged file is loaded and returned.
ReadOutput ==
  /\ pc = "read"
  /\ IF ~exists(output_path)
       THEN /\ Leave(HTTPException(500, "Merged video file not created"))
            /\ UNCHANGED video_bytes
       ELSE /\ video_bytes' = fs[output_path]
            /\ Leave(NoExc)
  /\ UNCHANGED <<video_urls, video_parts, fs, nextTmp, downloaded_videos, clip_files, result,
                 response, created, attempts, calls>>
  /\ UNCHANGED <<frameVars, concVars>>

\* ------------------------------------------------------------ finally block
\* os.unlink / shutil.rmtree either delete or raise OSError; nothing in the
\* finally block catches it, so it leaves the function in place of whatever
\* was in flight.
DeleteOutcomes == {"deleted", "raised"}

\* Lines 257-259: one iteration over downloaded_videos.
FinallyVideos ==
  /\ pc = "finally_videos"
  /\ idx <= Len(downloaded_videos)
  /\ LET video_path == downloaded_videos[idx]
         next == FinallyFrom("finally_videos", idx + 1)
     IN \E how \in DeleteOutcomes :
          IF exists(video_path) /\ how = "raised"
            THEN /\ exc' = OSError
                 /\ pc' = "respond"
                 /\ UNCHANGED <<fs, idx>>
            ELSE /\ fs' = IF exists(video_path) THEN unlink(video_path) ELSE fs
                 /\ pc' = next[1]
                 /\ idx' = next[2]
                 /\ UNCHANGED exc
  /\ UNCHANGED <<video_urls, video_parts, nextTmp, downloaded_videos, clip_files, result,
                 video_bytes, bodyExc, response, created, attempts, calls>>
  /\ UNCHANGED <<frameVars, concVars>>

\* Lines 261-263: one iteration over clip_files.
FinallyClips ==
  /\ pc = "finally_clips"
  /\ idx <= Len(clip_files)
  /\ LET clip_file == clip_files[idx]
         next == FinallyFrom("finally_clips", idx + 1)
     IN \E how \in DeleteOutcomes :
          IF exists(clip_file) /\ how = "raised"
            THEN /\ exc' = OSError
                 /\ pc' = "respond"
                 /\ UNCHANGED <<fs, idx>>
            ELSE /\ fs' = IF exists(clip_file) THEN unlink(clip_file) ELSE fs
                 /\ pc' = next[1]
                 /\ idx' = next[2]
                 /\ UNCHANGED exc
  /\ UNCHANGED <<video_urls, video_parts, nextTmp, downloaded_videos, clip_files, result,
                 video_bytes, bodyExc, response, created, attempts, calls>>
  /\ UNCHANGED <<frameVars, concVars>>

\* Lines 265-266: the scratch directory is removed with everything in it.
FinallyDir ==
  /\ pc = "finally_dir"
  /\ \E how \in DeleteOutcomes :
       IF exists(temp_dir) /\ how = "raised"
         THEN /\ exc' = OSError
              /\ UNCHANGED fs
         ELSE /\ fs' = IF exists(temp_dir) THEN rmtree ELSE fs
              /\ UNCHANGED exc
  /\ pc' = "respond"
  /\ UNCHANGED <<video_urls, video_parts, idx, nextTmp, downloaded_videos, clip_files, result,
                 video_bytes, bodyExc, response, created, attempts, calls>>
  /\ UNCHANGED <<frameVars, concVars>>

\* ------------------------------------------------------------- the response
\* clip_and_merge, lines 292-302: a return value becomes the 200 body, an
\* HTTPException passes through, anything else becomes the 500 wrapper.
ResponseFor(e) ==
  IF e.type = "none" THEN [status |-> 200, kind |-> "video/mp4", body |-> video_bytes]
  ELSE IF e.type = "HTTPException" THEN [status |-> e.status, kind |-> e.kind, body |-> NoData]
  ELSE [status |-> 500, kind |-> "Internal server error", body |-> NoData]

Respond ==
  /\ pc = "respond"
  /\ response' = ResponseFor(exc)
  /\ pc' = "done"
  /\ UNCHANGED <<video_urls, video_parts, idx, fs, nextTmp, downloaded_videos, clip_files,
                 result, video_bytes, exc, bodyExc, created, attempts, calls>>
  /\ UNCHANGED <<frameVars, concVars>>

Next ==
  \/ ValidateInput
  \/ Mkdtemp
  \/ Download
  \/ ValidateSections
  \/ Clip
  \/ WriteConcat
  \/ MergeCopy
  \/ MergeReencode
  \/ ReadOutput
  \/ FinallyVideos
  \/ FinallyClips
  \/ FinallyDir
  \/ Respond

Spec == Init /\ [][Next]_vars

\* =========================================================== /extract-frame
\* One POST /extract-frame request: extract_frame_from_video (lines 95-125)
\* with download_video and extract_frame (lines 51-92).  clipVars are the
\* variables only /clip-and-merge uses.
clipVars == <<video_parts, idx, downloaded_videos, clip_files, result, video_bytes, bodyExc,
              calls>>

Exception == [type |-> "Exception", status |-> 0, kind |-> "unexpected"]

InitFrame ==
  /\ video_urls = <<1>>
  /\ time_seconds \in (0 - 1)..MaxTime
  /\ video \in [opened : BOOLEAN, fps : 0..MaxFps, total_frames : 0..MaxFrames,
                readable : BOOLEAN]
  /\ cap = "none"
  /\ frame_path = NoPath
  /\ pc = "frame_download"
  /\ fs = << >>
  /\ nextTmp = 0
  /\ exc = NoExc
  /\ response = NoResponse
  /\ created = {}
  /\ attempts = << >>
  /\ video_parts = << >>
  /\ idx = 1
  /\ downloaded_videos = << >>
  /\ clip_files = << >>
  /\ result = NoResult
  /\ video_bytes = NoData
  /\ bodyExc = NoExc
  /\ calls = << >>
  /\ ConcIdle

\* Lines 105-108: video_path = download_video(request.video_url).
FrameDownload ==
  /\ pc = "frame_download"
  /\ \E how \in DownloadOutcomes :
       LET d == download_video(video_urls[1], how) IN
         /\ attempts' = Append(attempts, 1)
         /\ fs' = IF d.made THEN write(d.path, d.data) ELSE fs
         /\ created' = IF d.made THEN created \cup {d.path} ELSE created
         /\ nextTmp' = IF d.made THEN nextTmp + 1 ELSE nextTmp
         /\ IF d.exc.type = "none"
              THEN /\ frame_path' = d.path
                   /\ pc' = "frame_open"
                   /\ UNCHANGED exc
              ELSE /\ exc' = d.exc
                   /\ pc' = "frame_finally"
                   /\ UNCHANGED frame_path
  /\ UNCHANGED <<video_urls, response, time_seconds, video, cap, clipVars, concVars>>

\* Lines 53-56: cap = cv2.VideoCapture(video_path); an unopened capture holds
\* no handle.
FrameOpen ==
  /\ pc = "frame_open"
  /\ IF video.opened
       THEN /\ cap' = "open"
            /\ pc' = "frame_validate"
            /\ UNCHANGED exc
       ELSE /\ exc' = HTTPException(400, "Failed to open video file")
            /\ pc' = "frame_finally"
            /\ UNCHANGED cap
  /\ UNCHANGED <<video_urls, fs, nextTmp, response, created, attempts, time_seconds, video,
                 frame_path, clipVars, concVars>>

\* Lines 59-68: duration = total_frames / fps if fps > 0 else 0; the time is
\* checked against 0 and, when the duration is positive, against the duration.
TimeError(t, fps, total_frames) ==
  IF t < 0 THEN "Time must be non-negative"
  ELSE IF fps > 0 /\ total_frames > 0 /\ t * fps > total_frames
    THEN "Time exceeds video duration"
  ELSE "none"

\* Lines 59-68: the two raises leave extract_frame as it is, cap included.
FrameValidate ==
  /\ pc = "frame_validate"
  /\ IF TimeError(time_seconds, video.fps, video.total_frames) # "none"
       THEN /\ exc' = HTTPException(400, TimeError(time_seconds, video.fps, video.total_frames))
            /\ pc' = "frame_finally"
       ELSE /\ pc' = "frame_read"
            /\ UNCHANGED exc
  /\ UNCHANGED <<video_urls, fs, nextTmp, response, created, attempts, frameVars, clipVars,
                 concVars>>

\* Lines 71-81: seek, cap.read(), cap.release(), then the check of the frame.
FrameRead ==
  /\ pc = "frame_read"
  /\ cap' = "released"
  /\ IF ~video.readable
       THEN /\ exc' = HTTPException(400, "Failed to extract frame from video")
            /\ pc' = "frame_finally"
       ELSE /\ pc' = "frame_encode"
            /\ UNCHANGED exc
  /\ UNCHANGED <<video_urls, fs, nextTmp, response, created, attempts, time_seconds, video,
                 frame_path, clipVars, concVars>>

\* Lines 83-92 and 113-121: the frame is converted and encoded as PNG; an
\* exception of cv2 or PIL is caught by `except Exception` and becomes a 500.
FrameEncode ==
  /\ pc = "frame_encode"
  /\ \E ok \in BOOLEAN : exc' = IF ok THEN NoExc ELSE Exception
  /\ pc' = "frame_finally"
  /\ UNCHANGED <<video_urls, fs, nextTmp, response, created, attempts, frameVars, clipVars,
                 concVars>>

\* Lines 122-125: if video_path and os.path.exists(video_path): os.unlink(video_path).
FrameFinally ==
  /\ pc = "frame_finally"
  /\ \E how \in DeleteOutcomes :
       IF frame_path # NoPath /\ exists(frame_path)
         THEN IF how = "raised"
                THEN exc' = OSError /\ UNCHANGED fs
                ELSE fs' = unlink(frame_path) /\ UNCHANGED exc
         ELSE UNCHANGED <<fs, exc>>
  /\ pc' = "frame_respond"
  /\ UNCHANGED <<video_urls, nextTmp, response, created, attempts, frameVars, clipVars,
                 concVars>>

\* Lines 113-121: the PNG is the 200 body, an HTTPException passes through,
\* any other exception is answered with a 500.
FrameResponseFor(e) ==
  IF e.type = "none"
    THEN [status |-> 200, kind |-> "image/png", body |-> [NoData EXCEPT !.kind = "png"]]
  ELSE IF e.type = "HTTPException" THEN [status |-> e.status, kind |-> e.kind, body |-> NoData]
  ELSE [status |-> 500, kind |-> "Internal server error", body |-> NoData]

FrameRespond ==
  /\ pc = "frame_respond"
  /\ response' = FrameResponseFor(exc)
  /\ pc' = "done"
  /\ UNCHANGED <<video_urls, fs, nextTmp, exc, created, attempts, frameVars, clipVars,
                 concVars>>

NextFrame ==
  \/ FrameDownload
  \/ FrameOpen
  \/ FrameValidate
  \/ FrameRead
  \/ FrameEncode
  \/ FrameFinally
  \/ FrameRespond

SpecFrame == InitFrame /\ [][NextFrame]_vars

\* ====================================================== concurrent requests
\* NumRequests calls of clip_and_merge_videos (lines 128-266) run at once on
\* the same request body and share the temp namespace.  A shared path is
\* <<kind, name, k>>: a NamedTemporaryFile <<"tmp", name, 0>>, a mkdtemp
\* directory <<"dir", name, 0>>, and <<kind, name, k>> for a file joined to
\* the directory of that name.
Requests == 1..NumRequests
Names == 1..MaxNames

\* The body every concurrent request sends: one URL, one section.
ConcUrls == <<1>>
ConcParts == <<[section |-> 1, video_id |-> 0, start_time |-> 0, end_time |-> 1]>>

NoDir == <<"None", 0, 0>>
Join(dir, kind, k) == <<kind, dir[2], k>>
ParentOf(p) == IF p[1] \in {"tmp", "dir"} THEN p ELSE <<"dir", p[2], 0>>

\* tempfile.mkdtemp / NamedTemporaryFile: a name no existing path of that kind has.
FreshNames_Fixed(kind) == {1}
FreshNames(kind) == {n \in Names : <<kind, n, 0>> \notin DOMAIN disk}

\* Request r touches path p although p, or the directory p lies in, was
\* created by another request and still exists.
Foreign(r, p) ==
  \/ p \in DOMAIN disk /\ disk[p] # r
  \/ ParentOf(p) \in DOMAIN disk /\ disk[ParentOf(p)] # r

Touch(r, paths) == alias' = (alias \/ \E p \in paths : Foreign(r, p))

Creates(r, paths) ==
  [q \in (DOMAIN disk) \cup paths |-> IF q \in DOMAIN disk THEN disk[q] ELSE r]
Removes(paths) == [q \in (DOMAIN disk) \ paths |-> disk[q]]

\* What request r leaves behind when it returns belongs to no running request.
\* Of a directory left behind only the directory itself is kept: Foreign
\* decides on the directory for every path inside it.
NoRequest == 0
Returned(r, d) ==
  [q \in {p \in DOMAIN d : d[p] # r \/ p[1] \in {"tmp", "dir"}} |->
     IF d[q] = r THEN NoRequest ELSE d[q]]

Range(seq) == {seq[i] : i \in 1..Len(seq)}

\* The locals of one call of clip_and_merge_videos; they are gone once it returns.
Locals(at) ==
  [pc |-> at, idx |-> 1, temp_dir |-> NoDir, downloaded_videos |-> << >>, clip_files |-> << >>]

InitConc ==
  /\ rq = [r \in Requests |-> Locals("mkdtemp")]
  /\ disk = << >>
  /\ alias = FALSE
  /\ video_urls = ConcUrls
  /\ video_parts = ConcParts
  /\ pc = "concurrent"
  /\ idx = 1
  /\ fs = << >>
  /\ nextTmp = 0
  /\ downloaded_videos = << >>
  /\ clip_files = << >>
  /\ result = NoResult
  /\ video_bytes = NoData
  /\ exc = NoExc
  /\ bodyExc = NoExc
  /\ response = NoResponse
  /\ created = {}
  /\ attempts = << >>
  /\ calls = << >>
  /\ FrameIdle

oneVars == <<video_urls, video_parts, pc, idx, fs, nextTmp, downloaded_videos, clip_files,
             result, video_bytes, exc, bodyExc, response, created, attempts, calls, frameVars>>

\* Where the finally block of request r starts, given its two lists.
ConcFinallyFrom(l, phase, i) ==
  IF phase = "finally_videos" /\ i <= Len(l.downloaded_videos) THEN <<"finally_videos", i>>
  ELSE IF phase = "finally_videos" /\ Len(l.clip_files) >= 1 THEN <<"finally_clips", 1>>
  ELSE IF phase = "finally_clips" /\ i <= Len(l.clip_files) THEN <<"finally_clips", i>>
  ELSE <<"finally_dir", 1>>

ConcLeave(l) ==
  [l EXCEPT !.pc = ConcFinallyFrom(l, "finally_videos", 1)[1], !.idx = 1]

\* Line 132 for request r.
ConcMkdtemp(r) ==
  /\ rq[r].pc = "mkdtemp"
  /\ \E n \in FreshNames("dir") :
       LET dir == <<"dir", n, 0>> IN
         /\ Touch(r, {dir})
         /\ disk' = Creates(r, {dir})
         /\ rq' = [rq EXCEPT ![r] = [@ EXCEPT !.temp_dir = dir, !.pc = "download", !.idx = 1]]
  /\ UNCHANGED oneVars

\* Lines 136-138 with download_video (lines 34-48) for request r.
ConcDownload(r) ==
  /\ rq[r].pc = "download"
  /\ \E how \in DownloadOutcomes :
       IF how = "get_failed"
         THEN /\ rq' = [rq EXCEPT ![r] = ConcLeave(@)]
              /\ UNCHANGED <<disk, alias>>
         ELSE \E n \in FreshNames("tmp") :
                LET path == <<"tmp", n, 0>> IN
                  /\ Touch(r, {path})
                  /\ disk' = Creates(r, {path})
                  /\ rq' = [rq EXCEPT ![r] =
                              IF how = "stream_failed"
                                THEN ConcLeave(@)
                                ELSE [@ EXCEPT !.downloaded_videos = Append(@, path),
                                               !.pc = IF rq[r].idx < Len(ConcUrls)
                                                        THEN "download" ELSE "clip",
                                               !.idx = IF rq[r].idx < Len(ConcUrls)
                                                         THEN rq[r].idx + 1 ELSE 1]]
  /\ UNCHANGED oneVars

\* Lines 154-191 for request r: the tool reads the source, may write the clip,
\* and the code tests the clip path.
ConcClip(r) ==
  /\ rq[r].pc = "clip"
  /\ \E o \in ToolOutcomes :
       LET section == ConcParts[rq[r].idx]
           src == rq[r].downloaded_videos[section.video_id + 1]
           out == Join(rq[r].temp_dir, "clip", section.section)
           present == o.wrote \/ out \in DOMAIN disk
       IN
         /\ Touch(r, {src, out})
         /\ disk' = IF o.wrote THEN Creates(r, {out}) ELSE disk
         /\ rq' = [rq EXCEPT ![r] =
                     IF o.timedOut \/ o.returncode # 0 \/ ~present
                       THEN ConcLeave(@)
                       ELSE [@ EXCEPT !.clip_files = Append(@, out),
                                      !.pc = IF rq[r].idx < Len(ConcParts)
                                               THEN "clip" ELSE "concat",
                                      !.idx = IF rq[r].idx < Len(ConcParts)
                                                THEN rq[r].idx + 1 ELSE 1]]
  /\ UNCHANGED oneVars

\* Lines 194-197 for request r.
ConcWriteConcat(r) ==
  /\ rq[r].pc = "concat"
  /\ LET manifest == Join(rq[r].temp_dir, "concat_list.txt", 0) IN
       /\ Touch(r, {manifest})
       /\ disk' = Creates(r, {manifest})
  /\ rq' = [rq EXCEPT ![r].pc = "merge"]
  /\ UNCHANGED oneVars

\* Lines 199-244 for request r: one concat invocation, which reads the
\* manifest and the clips it lists and may write the output.
ConcMerge(r) ==
  /\ rq[r].pc \in {"merge", "reencode"}
  /\ \E o \in ToolOutcomes :
       LET manifest == Join(rq[r].temp_dir, "concat_list.txt", 0)
           out == Join(rq[r].temp_dir, "merged_video.mp4", 0)
       IN
         /\ Touch(r, {manifest, out} \cup Range(rq[r].clip_files))
         /\ disk' = IF o.wrote THEN Creates(r, {out}) ELSE disk
         /\ rq' = [rq EXCEPT ![r] =
                     IF o.timedOut THEN ConcLeave(@)
                     ELSE IF ~FallbackNeeded(o.returncode) THEN [@ EXCEPT !.pc = "read"]
                     ELSE IF rq[r].pc = "merge" THEN [@ EXCEPT !.pc = "reencode"]
                     ELSE ConcLeave(@)]
  /\ UNCHANGED oneVars

\* Lines 246-253 for request r.
ConcRead(r) ==
  /\ rq[r].pc = "read"
  /\ Touch(r, {Join(rq[r].temp_dir, "merged_video.mp4", 0)})
  /\ rq' = [rq EXCEPT ![r] = ConcLeave(@)]
  /\ UNCHANGED disk
  /\ UNCHANGED oneVars

\* Lines 257-263 for request r: one iteration of either deletion loop.
ConcFinallyFiles(r) ==
  /\ rq[r].pc \in {"finally_videos", "finally_clips"}
  /\ LET path == IF rq[r].pc = "finally_videos" THEN rq[r].downloaded_videos[rq[r].idx]
                 ELSE rq[r].clip_files[rq[r].idx]
         next == ConcFinallyFrom(rq[r], rq[r].pc, rq[r].idx + 1)
     IN /\ Touch(r, {path})
        /\ \E how \in DeleteOutcomes :
             IF path \in DOMAIN disk /\ how = "raised"
               THEN /\ rq' = [rq EXCEPT ![r] = Locals("done")]
                    /\ disk' = Returned(r, disk)
               ELSE /\ disk' = Removes({path})
                    /\ rq' = [rq EXCEPT ![r].pc = next[1], ![r].idx = next[2]]
  /\ UNCHANGED oneVars

\* Lines 265-266 for request r.
ConcFinallyDir(r) ==
  /\ rq[r].pc = "finally_dir"
  /\ LET dir == rq[r].temp_dir
         tree == {p \in DOMAIN disk : ParentOf(p) = dir}
     IN /\ Touch(r, {dir} \cup tree)
        /\ \E how \in DeleteOutcomes :
             IF dir \in DOMAIN disk /\ how = "raised"
               THEN disk' = Returned(r, disk)
               ELSE disk' = Returned(r, Removes(tree))
  /\ rq' = [rq EXCEPT ![r] = Locals("done")]
  /\ UNCHANGED oneVars

NextConc ==
  \/ \E r \in Requests : ConcMkdtemp(r)
  \/ \E r \in Requests : ConcDownload(r)
  \/ \E r \in Requests : ConcClip(r)
  \/ \E r \in Requests : ConcWriteConcat(r)
  \/ \E r \in Requests : ConcMerge(r)
  \/ \E r \in Requests : ConcRead(r)
  \/ \E r \in Requests : ConcFinallyFiles(r)
  \/ \E r \in Requests : ConcFinallyDir(r)

SpecConc == InitConc /\ [][NextConc]_vars

\* ================================================================== claims
Finished == pc = "done"
ToolCalls(tool) == SelectSeq(calls, LAMBDA c : c.tool = tool)
DistinctIds ==
  \A a, b \in 1..Len(video_parts) : a # b => video_parts[a].section # video_parts[b].section

\* C1: when the request is over, nothing it created is left on disk: no
\* downloaded file, no clip, no manifest, no merged output, no scratch directory.
\* Stated for the runs in which no deletion raised, so that what remains is
\* not what a failed deletion (C10) left.
C1_NothingLeftOnDisk == (Finished /\ exc # OSError) => DOMAIN fs = {}

\* C2: a request with a section whose video_id >= len(video_urls) makes no
\* download, no clip and no merge invocation, creates no file or directory at
\* any point, and ends with a 400.
C2_BadIndexNoSideEffect ==
  (\E j \in 1..Len(video_parts) : video_parts[j].video_id >= Len(video_urls))
    => /\ attempts = << >>
       /\ calls = << >>
       /\ created = {}
       /\ Finished => response.status = 400

\* C3: a request with an empty video_urls or an empty video_parts makes no
\* download, creates no temp file or scratch directory, and ends with a 400
\* client-input error.
C3_EmptyListsRejectedFirst ==
  (video_urls = << >> \/ video_parts = << >>)
    => /\ attempts = << >>
       /\ created = {}
       /\ calls = << >>
       /\ Finished => /\ response.status = 400
                      /\ response.kind \in {"video_urls cannot be empty",
                                            "video_parts cannot be empty"}

C3_Witness ==
  /\ Finished
  /\ video_urls # << >>
  /\ video_parts = << >>
  /\ response.status = 400

\* C4: when any section, at any list position, has a video_id out of range, a
\* negative start_time or end_time <= start_time, the media tool is never
\* invoked and the request ends with a 400.  The end of the request is looked
\* at in the runs that reached the validation (every download succeeded).
C4_InvalidSectionFailsFast ==
  (\E j \in 1..Len(video_parts) : SectionError(video_parts[j], Len(video_urls)) # "none")
    => /\ calls = << >>
       /\ (Finished /\ video_urls # << >> /\ Len(downloaded_videos) = Len(video_urls))
            => response.status = 400

\* C5: with pairwise distinct section identifiers, the manifest the merge step
\* reads has one line per section, and line i names the clip file that the
\* clip invocation for list position i wrote.
C5_ManifestInListOrder ==
  (DistinctIds /\ pc \in {"merge", "reencode", "read"})
    => LET lines == fs[concat_file].lines IN
         /\ Len(lines) = Len(video_parts)
         /\ \A i \in 1..Len(lines) :
              /\ lines[i] = <<"file", ToolCalls("clip")[i].out>>
              /\ ToolCalls("clip")[i].pos = i
              /\ fs[lines[i][2]].pos = i

C5_Witness ==
  /\ pc = "merge"
  /\ Len(video_parts) = 2
  /\ video_parts[1].section > video_parts[2].section
  /\ fs[concat_file].lines[1][2] # fs[concat_file].lines[2][2]

\* C6 (as stated): the clip invocations of two distinct list positions are
\* given distinct output files.
C6_DistinctPositionsDistinctFiles ==
  \A a, b \in 1..Len(calls) :
    (calls[a].tool = "clip" /\ calls[b].tool = "clip" /\ calls[a].pos # calls[b].pos)
      => calls[a].out # calls[b].out

\* C6 (amended): the clip invocations of two list positions whose section
\* identifiers differ are given distinct output files, so neither invocation
\* writes over the other's clip.
C6_DistinctIdsDistinctFiles ==
  \A a, b \in 1..Len(calls) :
    (/\ calls[a].tool = "clip"
     /\ calls[b].tool = "clip"
     /\ video_parts[calls[a].pos].section # video_parts[calls[b].pos].section)
      => calls[a].out # calls[b].out

C6_Witness ==
  /\ pc = "concat"
  /\ Len(ToolCalls("clip")) = 2
  /\ \A i \in 1..2 : ToolCalls("clip")[i].wrote
  /\ video_parts[1].section # video_parts[2].section
  /\ video_parts[1].video_id = video_parts[2].video_id

\* C7: the re-encode concat runs exactly when the stream-copy concat exited
\* non-zero; the merge step ends in a 500 merge error exactly when the
\* re-encode exited non-zero or the output file is absent after a zero exit of
\* the last invocation, and otherwise (a zero exit with the file present) the
\* merged file is returned.
MergeOver ==
  /\ pc \in {"finally_videos", "finally_clips", "finally_dir", "respond", "done"}
  /\ Len(ToolCalls("copy")) = 1
  /\ \A i \in 1..Len(calls) : ~calls[i].timedOut

C7_FallbackAndMergeOutcome ==
  LET copy == ToolCalls("copy")
      re == ToolCalls("reencode")
      last == calls[Len(calls)]
  IN /\ Len(copy) <= 1 /\ Len(re) <= 1
     /\ Len(re) = 1 => (Len(copy) = 1 /\ ~copy[1].timedOut /\ copy[1].returncode # 0)
     /\ (Len(copy) = 1 /\ ~copy[1].timedOut /\ copy[1].returncode # 0 /\ pc # "reencode")
          => Len(re) = 1
     /\ MergeOver =>
          /\ (bodyExc = HTTPException(500, "Failed to merge videos"))
               <=> (Len(re) = 1 /\ re[1].returncode # 0)
          /\ (bodyExc = HTTPException(500, "Merged video file not created"))
               <=> (last.returncode = 0 /\ ~last.existsAfter)
          /\ (bodyExc = NoExc /\ video_bytes.kind = "merged")
               <=> (last.returncode = 0 /\ last.existsAfter)

C7_Witness ==
  /\ Finished
  /\ Len(ToolCalls("copy")) = 1
  /\ ToolCalls("copy")[1].returncode = 1
  /\ Len(ToolCalls("reencode")) = 1
  /\ ToolCalls("reencode")[1].returncode = 0
  /\ ToolCalls("reencode")[1].existsAfter
  /\ response.status = 200

\* C8: when the download of the k-th URL fails, no later URL is downloaded, no
\* clip or merge invocation happens, the request ends with a 400, and the files
\* downloaded for the URLs before k are gone when the request ends.
C8_DownloadFailureAborts ==
  (Finished /\ bodyExc = HTTPException(400, "Failed to download video"))
    => /\ attempts = [i \in 1..Len(attempts) |-> i]
       /\ Len(downloaded_videos) = Len(attempts) - 1
       /\ calls = << >>
       /\ response.status = 400
       /\ \A i \in 1..Len(downloaded_videos) : ~exists(downloaded_videos[i])

\* C9: a request whose tool invocation timed out ends with an error kind of
\* its own: not one of the tool-execution failures, not the catch-all wrapper.
\* Stated for the runs in which no deletion raised, so that the error the
\* caller sees is the one of the timeout.
C9_TimeoutIsDistinctKind ==
  (Finished /\ exc # OSError /\ \E i \in 1..Len(calls) : calls[i].timedOut)
    => /\ response.status >= 500
       /\ response.kind \notin {"Failed to clip section", "Clip file not created",
                                "Failed to merge videos", "Merged video file not created",
                                "Internal server error"}

\* C10: a deletion that fails in the finally block changes nothing: the caller
\* still receives the merged bytes or the original error, and the other
\* downloaded files, clip files and the scratch directory are still deleted.
C10_CleanupFailureSuppressed ==
  (Finished /\ exc = OSError)
    => /\ response = ResponseFor(bodyExc)
       /\ Cardinality({p \in DOMAIN fs : p = temp_dir \/ InTempDir(p)
                                           \/ \E i \in 1..Len(downloaded_videos) :
                                                p = downloaded_videos[i]}) <= 1

\* C11: the endpoint answers 200 with the video only when every download
\* succeeded, every section passed validation, every clip invocation exited
\* zero and wrote its file and a merge invocation wrote the output; every
\* other answer is an error without video bytes, 4xx after an empty list, a
\* failed download, a bad index or a bad range, 500 after a tool failure.
C11_OnlyFullSuccessAnswers200 ==
  Finished =>
    /\ response.status = 200 =>
         /\ response.body.kind = "merged"
         /\ Len(downloaded_videos) = Len(video_urls)
         /\ FirstInvalid(video_parts, Len(video_urls)) = 0
         /\ \A i \in 1..Len(calls) :
              calls[i].tool = "clip"
                => (~calls[i].timedOut /\ calls[i].returncode = 0 /\ calls[i].wrote)
         /\ \E i \in 1..Len(calls) : calls[i].tool \in {"copy", "reencode"} /\ calls[i].wrote
    /\ response.status # 200 => (response.body = NoData /\ response.status >= 400)
    /\ (\/ InputError(video_urls, video_parts) # "none"
        \/ bodyExc.kind \in {"Failed to download video", "Invalid video_id",
                             "Invalid time range"})
         => response.status \in 400..499
    /\ bodyExc.kind \in {"Failed to clip section", "Clip file not created",
                         "Failed to merge videos", "Merged video file not created"}
         => response.status = 500

\* C12: no URL position is downloaded twice, no list position is clipped
\* twice, the concat tool runs at most once in stream-copy and at most once in
\* re-encode mode, and from the moment an exception is in flight no further
\* download and no further tool invocation is made.
C12_NoRetryFailureTerminal ==
  /\ [](/\ \A a, b \in 1..Len(attempts) : a # b => attempts[a] # attempts[b]
        /\ \A a, b \in 1..Len(calls) :
             (a # b /\ calls[a].tool = "clip" /\ calls[b].tool = "clip")
               => calls[a].pos # calls[b].pos
        /\ Len(ToolCalls("copy")) <= 1
        /\ Len(ToolCalls("reencode")) <= 1
        /\ Len(ToolCalls("copy")) + Len(ToolCalls("reencode")) <= 2)
  /\ [][exc # NoExc => (attempts' = attempts /\ calls' = calls)]_vars

C12_Witness ==
  /\ Finished
  /\ Len(attempts) = 2
  /\ bodyExc = HTTPException(400, "Failed to download video")
  /\ calls = << >>

\* C15 (as stated): a clip or merge invocation is accepted only when it exited
\* zero and wrote its output file itself.
C15_AcceptedOnlyIfItWrote ==
  /\ \A i \in 1..Len(ToolCalls("clip")) :
       Len(clip_files) >= i
         => (ToolCalls("clip")[i].returncode = 0 /\ ToolCalls("clip")[i].wrote)
  /\ video_bytes.kind = "merged"
       => (calls[Len(calls)].returncode = 0 /\ calls[Len(calls)].wrote)

\* C15 (amended): a clip or merge invocation is accepted only when it exited
\* zero and a file is present at its output path afterwards; a zero-exit clip
\* invocation that writes nothing is reported as "Clip file not created" when
\* no earlier invocation wrote that path, and is accepted when one did.
BeforeCleanup == pc \in {"clip", "concat", "merge", "reencode", "read"}

C15_AcceptedOnlyIfOutputExists ==
  LET clips == ToolCalls("clip") IN
    /\ \A i \in 1..Len(clips) :
         LET earlier == \E k \in 1..(i - 1) : clips[k].out = clips[i].out /\ clips[k].wrote
             zero == ~clips[i].timedOut /\ clips[i].returncode = 0
         IN /\ Len(clip_files) >= i <=> (zero /\ (clips[i].wrote \/ earlier))
            /\ (Len(clip_files) >= i /\ BeforeCleanup) => clips[i].out \in DOMAIN fs
            /\ (zero /\ ~clips[i].wrote /\ ~earlier)
                 => bodyExc = HTTPException(500, "Clip file not created")
    /\ video_bytes.kind = "merged"
         => /\ ~calls[Len(calls)].timedOut
            /\ calls[Len(calls)].returncode = 0
            /\ \E k \in 1..Len(calls) : calls[k].out = output_path /\ calls[k].wrote

C15_Witness ==
  /\ pc = "concat"
  /\ Len(ToolCalls("clip")) = 2
  /\ Len(clip_files) = 2
  /\ ToolCalls("clip")[1].wrote
  /\ ~ToolCalls("clip")[2].wrote

\* C16: the file handed to the clip tool for a section is the file downloaded
\* from video_urls[section.video_id], and the clip it writes is cut from that
\* URL's content.
C16_ClipSourceMatchesIndex ==
  \A i \in 1..Len(calls) :
    calls[i].tool = "clip" =>
      LET url == video_urls[video_parts[calls[i].pos].video_id + 1] IN
        /\ calls[i].src \in DOMAIN fs
             => (fs[calls[i].src].kind = "video" /\ fs[calls[i].src].url = url)
        /\ (i = Len(calls) /\ calls[i].wrote /\ calls[i].out \in DOMAIN fs)
             => fs[calls[i].out].url = url

C16_Witness ==
  /\ pc = "concat"
  /\ Len(video_urls) = 2
  /\ Len(video_parts) = 2
  /\ video_parts[1].video_id = 1
  /\ video_parts[2].video_id = 0
  /\ video_parts[1].section = 1
  /\ video_parts[2].section = 2
  /\ fs[clip_files[1]].url = video_urls[2]
  /\ fs[clip_files[2]].url = video_urls[1]

\* C17: a tool invocation is made only after every URL was downloaded, a
\* concat invocation only after every section was clipped with a zero exit,
\* the merged file is read only after the last concat invocation exited zero,
\* and a path is deleted only after the pipeline returned or raised.
C17_PhasesInOrder ==
  /\ calls # << >> =>
       /\ Len(downloaded_videos) = Len(video_urls)
       /\ attempts = [i \in 1..Len(video_urls) |-> i]
  /\ Len(ToolCalls("copy")) >= 1 =>
       /\ Len(clip_files) = Len(video_parts)
       /\ Len(ToolCalls("clip")) = Len(video_parts)
       /\ \A i \in 1..Len(video_parts) :
            /\ ToolCalls("clip")[i].pos = i
            /\ ~ToolCalls("clip")[i].timedOut
            /\ ToolCalls("clip")[i].returncode = 0
  /\ video_bytes # NoData =>
       /\ calls[Len(calls)].tool \in {"copy", "reencode"}
       /\ ~calls[Len(calls)].timedOut
       /\ calls[Len(calls)].returncode = 0
  /\ created \ DOMAIN fs # {} => (bodyExc # NoExc \/ video_bytes # NoData)
  /\ (bodyExc # NoExc \/ video_bytes # NoData) => ~BeforeCleanup

C17_Witness ==
  /\ Finished
  /\ response.status = 200
  /\ Len(video_urls) = 2
  /\ Len(video_parts) = 2
  /\ DOMAIN fs = {}

\* C18: a download_video call that fails leaves no new file on disk; one that
\* succeeds leaves exactly one new file, the one whose path it returns.
C18_DownloadLeavesOnlyReturnedFile ==
  [][attempts' # attempts =>
       IF downloaded_videos' = downloaded_videos
         THEN DOMAIN fs' = DOMAIN fs
         ELSE DOMAIN fs' = DOMAIN fs \cup {downloaded_videos'[Len(downloaded_videos')]}
              /\ downloaded_videos'[Len(downloaded_videos')] \notin DOMAIN fs]_vars

\* C13: once extract_frame has returned or raised, the capture handle it
\* opened is no longer held.
C13_CaptureReleasedOnEveryExit ==
  pc \in {"frame_finally", "frame_respond", "done"} => cap # "open"

\* C19: when the /extract-frame handler is over, no temp file of the request
\* is left on disk.  Stated for the runs in which os.unlink did not raise.
C19_FrameTempFileDeleted == (Finished /\ exc # OSError) => DOMAIN fs = {}

\* C14: with several requests running at once on the same URLs and section
\* identifiers, no request reads, writes, tests or deletes a path that another
\* request created, and the paths two requests hold before their cleanup are
\* disjoint.
HeldPaths(r) ==
  {rq[r].temp_dir} \cup Range(rq[r].downloaded_videos) \cup Range(rq[r].clip_files)

ConcBeforeCleanup(r) ==
  rq[r].pc \in {"download", "clip", "concat", "merge", "reencode", "read"}

C14_RequestsNeverAlias ==
  /\ ~alias
  /\ \A r, q \in Requests :
       (r # q /\ ConcBeforeCleanup(r) /\ ConcBeforeCleanup(q))
         => HeldPaths(r) \cap HeldPaths(q) = {}

C14_Witness ==
  /\ ~alias
  /\ \A r \in Requests : rq[r].pc = "merge"
  /\ \E r, q \in Requests : r # q /\ rq[r].clip_files # rq[q].clip_files
====
